---- MODULE Spec2Model ----
(***************************************************************************)
(* A model of src/main.rs: a 5x5 toroidal cellular automaton on the        *)
(* micro:bit LED matrix.  The foreground loop polls two buttons, the RTC0  *)
(* tick interrupt advances the shared grid IMAGE and redraws it, and the   *)
(* TIMER1 interrupt refreshes the display.                                 *)
(***************************************************************************)
EXTENDS Integers, Sequences, FiniteSets, TLC

VARIABLES
    state,           \* main: `state` (State::Running / State::Paused)
    a_pressed,       \* main: latch of button A
    b_pressed,       \* main: latch of button B
    automata,        \* main: the foreground's grid
    IMAGE,           \* static mut IMAGE, shared with RTC0
    SEED,            \* static mut SEED of random_automata
    counterEnabled,  \* RTC0 peripheral: counter started (enable_counter)
    tickEvent,       \* RTC0 peripheral: EVENTS_TICK is set (interrupt pending)
    frame,           \* the image last handed to display.show
    pc,              \* position of the foreground in main
    cp,              \* number of cells of `IMAGE = automata` already stored
    csOwner,         \* context inside cortex_m::interrupt::free, or "none"
    rtcPc,           \* position of the RTC0 handler, "idle" when not running
    dispEvent,       \* TIMER1 peripheral: a display event is pending
    t1Pc,            \* position of the TIMER1 handler, "idle" when not running
    rd,              \* what the foreground's latest step read from a pin
    ticks,           \* history: ticks handled by RTC0
    steps,           \* history: manual steps made with button B
    reseeds,         \* history: reseeds requested with button B
    actsA,           \* history: actions of button A since A last read released
    actsB,           \* history: actions of button B since B last read released
    imageWhole,      \* history: IMAGE is a whole reseed/advance output
    frameWhole,      \* history: frame was drawn from such a grid
    tIn,             \* input of the pure function under test
    tOut             \* its output, "none" before it is applied

vars == <<state, a_pressed, b_pressed, automata, IMAGE, SEED, counterEnabled,
          tickEvent, frame, pc, cp, csOwner, rtcPc, dispEvent, t1Pc, rd,
          ticks, steps, reseeds, actsA, actsB, imageWhole, frameWhole, tIn, tOut>>

(***************************************************************************)
(* Bounds of the model.                                                    *)
(***************************************************************************)
MaxTicks == 1
MaxSteps == 1
MaxReseeds == 1
MaxLive == 2

(***************************************************************************)
(* Program constants.                                                      *)
(***************************************************************************)
N == 5
Cells == N * N
InitialSeed == 39333
Brightness == 7
U16 == 65536
U8 == 256

Idx == 0 .. (N - 1)
ZeroGrid == [r \in Idx |-> [c \in Idx |-> 0]]

(***************************************************************************)
(* 32-bit unsigned values are kept as <<high half, low half>>, two 16-bit  *)
(* limbs, so that no intermediate value leaves the checker's integers.     *)
(***************************************************************************)
Pow2(n) == 2 ^ n

\* SEED as u32 * SEED as u32.  The high limb is not reduced: a product that
\* does not fit in 32 bits shows as a high limb of 65536 or more.
U32Square(s) ==
    LET a == s \div U8
        b == s % U8
        t == 2 * a * b
        loSum == b * b + (t % U8) * U8
    IN  <<a * a + (t \div U8) + (loSum \div U16), loSum % U16>>

\* x << n in u32, 0 <= n <= 16: the bits shifted out at the top are lost.
U32Shl(x, n) ==
    <<((x[1] % Pow2(16 - n)) * Pow2(n)) + (x[2] \div Pow2(16 - n)),
      (x[2] % Pow2(16 - n)) * Pow2(n)>>

\* x >> n in u32, 0 <= n <= 31.
U32Shr(x, n) ==
    IF n >= 16
    THEN <<0, x[1] \div Pow2(n - 16)>>
    ELSE <<x[1] \div Pow2(n), (x[2] \div Pow2(n)) + (x[1] % Pow2(n)) * Pow2(16 - n)>>

RECURSIVE And16(_, _)
And16(x, y) ==
    IF x = 0 \/ y = 0 THEN 0
    ELSE (x % 2) * (y % 2) + 2 * And16(x \div 2, y \div 2)

\* x & y in u32.
U32And(x, y) == <<And16(x[1], y[1]), And16(x[2], y[2])>>

(***************************************************************************)
(* random_automata: the middle-square generator and the seeded grid.       *)
(***************************************************************************)
\* A plausible slip: the low half of the square instead of its middle.
NextSeedLow(square) == U32Shr(U32Shl(square, 16), 16)[2] % U16

\* SEED = ((square << 8) >> 16) as u16
NextSeed(square) == U32Shr(U32Shl(square, 8), 16)[2] % U16

\* The loop over r, c of random_automata; n = 5 * r + c cells are done and
\* mask has been shifted left n times.
RECURSIVE RandomLoop(_, _, _, _)
RandomLoop(square, mask, result, n) ==
    IF n = Cells THEN result
    ELSE LET r == n \div N
             c == n % N
             cell == U32Shr(U32And(square, mask), N * r + c)[2] % U8
         IN  RandomLoop(square, U32Shl(mask, 1),
                        [result EXCEPT ![r][c] = cell], n + 1)

\* A plausible slip: the masked bit stored without the shift down, so that
\* bit n gives the cell 2^n cut to 8 bits.
RECURSIVE RandomLoopUnshifted(_, _, _, _)
RandomLoopUnshifted(square, mask, result, n) ==
    IF n = Cells THEN result
    ELSE LET r == n \div N
             c == n % N
             cell == U32And(square, mask)[2] % U8
         IN  RandomLoopUnshifted(square, U32Shl(mask, 1),
                                 [result EXCEPT ![r][c] = cell], n + 1)

random_automata_unshifted(seed) ==
    LET square == U32Square(seed)
    IN  [grid |-> RandomLoopUnshifted(square, <<0, 1>>, ZeroGrid, 0),
         seed |-> NextSeed(square)]

\* random_automata() called when SEED = seed: the grid returned and the
\* value left in SEED.
random_automata(seed) ==
    LET square == U32Square(seed)
    IN  [grid |-> RandomLoop(square, <<0, 1>>, ZeroGrid, 0),
         seed |-> NextSeed(square)]

(***************************************************************************)
(* Transition rules.  update_automata takes any F: Fn(u8, [u8; 8]) -> u8;  *)
(* the program passes conway_transitions.  The other rules are probes of   *)
(* update_automata: "center" returns the cell, "nb1".."nb8" return the     *)
(* neighbour in that place of the array.                                   *)
(***************************************************************************)
LiveCount(neighbors) == Len(SelectSeq(neighbors, LAMBDA x : x # 0))

\* A plausible slip: the range of the second arm starting at 1.
conway_transitions_from_one(center_cell, neighbors) ==
    LET live_neighbor_count == LiveCount(neighbors)
    IN  IF center_cell = 0 /\ live_neighbor_count = 3 THEN 1
        ELSE IF live_neighbor_count \in 1 .. 3 THEN 1
        ELSE 0

conway_transitions(center_cell, neighbors) ==
    LET live_neighbor_count == LiveCount(neighbors)
    IN  IF center_cell = 0 /\ live_neighbor_count = 3 THEN 1
        ELSE IF live_neighbor_count \in 2 .. 3 THEN 1
        ELSE 0

ProbeRules == {"center", "nb1", "nb2", "nb3", "nb4", "nb5", "nb6", "nb7", "nb8"}
Rules == {"conway"} \cup ProbeRules

ProbeIndex(rule) ==
    CASE rule = "nb1" -> 1 [] rule = "nb2" -> 2 [] rule = "nb3" -> 3
      [] rule = "nb4" -> 4 [] rule = "nb5" -> 5 [] rule = "nb6" -> 6
      [] rule = "nb7" -> 7 [] rule = "nb8" -> 8

transition_function(rule, center_cell, neighbors) ==
    IF rule = "conway" THEN conway_transitions(center_cell, neighbors)
    ELSE IF rule = "center" THEN center_cell
    ELSE neighbors[ProbeIndex(rule)]

(***************************************************************************)
(* update_automata.                                                        *)
(***************************************************************************)
\* The array literal of update_automata, read from grid g.
Neighbors(g, row, col) ==
    << g[(row + 4) % N][(col + 4) % N],
       g[(row + 4) % N][col],
       g[(row + 4) % N][(col + 1) % N],
       g[row][(col + 4) % N],
       g[row][(col + 1) % N],
       g[(row + 1) % N][(col + 4) % N],
       g[(row + 1) % N][col],
       g[(row + 1) % N][(col + 1) % N] >>

\* A plausible slip: the update made in place, reading cells already written.
RECURSIVE UpdateLoopInPlace(_, _, _)
UpdateLoopInPlace(result, rule, n) ==
    IF n = Cells THEN result
    ELSE LET row == n \div N
             col == n % N
             next == transition_function(rule, result[row][col],
                                         Neighbors(result, row, col))
         IN  UpdateLoopInPlace([result EXCEPT ![row][col] = next], rule, n + 1)

update_automata_in_place(grid, rule) == UpdateLoopInPlace(grid, rule, 0)

\* let mut result = automata; then the loop over row, col: result[n] is
\* `result` when n = 5 * row + col cells have been written.
update_automata(grid, rule) ==
    LET result[n \in 0 .. Cells] ==
            IF n = 0 THEN grid
            ELSE LET row == (n - 1) \div N
                     col == (n - 1) % N
                 IN  [result[n - 1] EXCEPT ![row][col] =
                        transition_function(rule, grid[row][col],
                                            Neighbors(grid, row, col))]
    IN  result[Cells]

\* The advance the program makes: update_automata(_, conway_transitions).
Advance(grid) == update_automata(grid, "conway")

(***************************************************************************)
(* draw: every cell times the brightness, handed to display.show.  The     *)
(* product is left unreduced, so a value above 255 is an overflow of u8.   *)
(***************************************************************************)
draw(grid, brightness) ==
    [r \in Idx |-> [c \in Idx |-> grid[r][c] * brightness]]

(***************************************************************************)
(* The program.                                                            *)
(***************************************************************************)
\* What one read of a button pin gives: is_low() is Ok(true) on "pressed",
\* is_high() is Ok(true) on "released", and "err" is an Err of either.
Reads == {"pressed", "released", "err"}

\* Row and column of the n-th cell in the row-major order of an array copy.
RowOf(n) == n \div N
ColOf(n) == n % N

\* Ticks raised whose advance is still to come.
TicksInFlight ==
    (IF tickEvent THEN 1 ELSE 0)
    + (IF rtcPc \in {"ack", "ack_exit", "advance"} THEN 1 ELSE 0)

\* RTC0 has priority 64 and is unmasked: a pending tick is taken as soon as
\* interrupts are not masked, before the foreground's next instruction, and
\* the foreground does not run while the handler does.
TickTaken == tickEvent /\ csOwner = "none"

\* TIMER1 has priority 128: its handler is entered when no tick is to be
\* taken and RTC0 is not running, and RTC0 preempts it while it is unmasked.
DisplayTaken == dispEvent /\ csOwner = "none" /\ ~tickEvent
T1CanRun == rtcPc = "idle" /\ ~TickTaken

\* The foreground runs when no handler is active and none is to be entered.
FgCanRun == rtcPc = "idle" /\ t1Pc = "idle" /\ ~TickTaken /\ ~DisplayTaken

histVars == <<ticks, steps, reseeds, actsA, actsB, imageWhole, frameWhole>>
testVars == <<tIn, tOut>>
t1Vars == <<dispEvent, t1Pc>>
rtcVars == <<counterEnabled, tickEvent>>
buttonVars == <<a_pressed, b_pressed, actsA, actsB>>

\* The pure functions are applied to inputs held in tIn; tOut holds the value
\* returned once the function has been applied.
NoInput == [kind |-> "none"]
NoOutput == [done |-> FALSE, val |-> 0]

Init ==
    /\ state = "Running"
    /\ a_pressed = FALSE
    /\ b_pressed = FALSE
    /\ automata = ZeroGrid
    /\ IMAGE = ZeroGrid
    /\ SEED = InitialSeed
    /\ counterEnabled = TRUE
    /\ tickEvent = FALSE
    /\ frame = ZeroGrid
    /\ pc = "start"
    /\ cp = 0
    /\ csOwner = "none"
    /\ rtcPc = "idle"
    /\ dispEvent = FALSE
    /\ t1Pc = "idle"
    /\ rd = "none"
    /\ ticks = 0
    /\ steps = 0
    /\ reseeds = 0
    /\ actsA = 0
    /\ actsB = 0
    /\ imageWhole = TRUE
    /\ frameWhole = TRUE
    /\ tIn = NoInput
    /\ tOut = NoOutput

\* let mut automata = random_automata(); (line 125)
Startup ==
    /\ pc = "start" /\ FgCanRun
    /\ LET ra == random_automata(SEED)
       IN  automata' = ra.grid /\ SEED' = ra.seed
    /\ pc' = "init_copy"
    /\ rd' = "none"
    /\ UNCHANGED <<state, IMAGE, frame, cp, csOwner, rtcPc, rtcVars,
                   buttonVars, ticks, steps, reseeds, imageWhole, frameWhole, testVars, t1Vars>>

\* unsafe { IMAGE = automata; }: the 25 bytes are stored one after the other,
\* outside any critical section (lines 130, 139, 171).
CopyCell ==
    /\ pc \in {"init_copy", "b_copy"} /\ FgCanRun
    /\ LET image == [IMAGE EXCEPT ![RowOf(cp)][ColOf(cp)] = automata[RowOf(cp)][ColOf(cp)]]
       IN  /\ IMAGE' = image
           /\ imageWhole' = IF image = automata THEN TRUE
                            ELSE IF image = IMAGE THEN imageWhole
                            ELSE FALSE
    /\ IF cp + 1 = Cells
       THEN cp' = 0 /\ pc' = (IF pc = "init_copy" THEN "pollB" ELSE "b_enter")
       ELSE cp' = cp + 1 /\ pc' = pc
    /\ rd' = "none"
    /\ UNCHANGED <<state, automata, SEED, frame, csOwner, rtcPc, rtcVars,
                   buttonVars, ticks, steps, reseeds, frameWhole, testVars, t1Vars>>

\* A plausible slip: the Paused branch of button B written as a copy of the
\* Running branch, calling random_automata().
ManualStepReseeding ==
    /\ pc = "pollB" /\ FgCanRun
    /\ state = "Paused" /\ ~b_pressed
    /\ steps < MaxSteps
    /\ b_pressed' = TRUE
    /\ actsB' = actsB + 1
    /\ LET ra == random_automata(SEED)
       IN  automata' = ra.grid /\ SEED' = ra.seed
    /\ steps' = steps + 1
    /\ rd' = "pressed"
    /\ pc' = "b_copy"
    /\ UNCHANGED <<state, a_pressed, actsA, IMAGE, frame, cp, csOwner,
                   rtcPc, rtcVars, ticks, reseeds, imageWhole, frameWhole,
                   testVars, t1Vars>>

\* Paused, button B: b_pressed = true; automata = update_automata(automata,
\* conway_transitions); (lines 135-138)
ManualStep ==
    /\ pc = "pollB" /\ FgCanRun
    /\ state = "Paused" /\ ~b_pressed
    /\ steps < MaxSteps
    /\ b_pressed' = TRUE
    /\ actsB' = actsB + 1
    /\ automata' = Advance(automata)
    /\ steps' = steps + 1
    /\ rd' = "pressed"
    /\ pc' = "b_copy"
    /\ UNCHANGED <<state, a_pressed, actsA, IMAGE, SEED, frame, cp, csOwner,
                   rtcPc, rtcVars, ticks, reseeds, imageWhole, frameWhole, testVars, t1Vars>>

\* Running, button B: b_pressed = true; automata = random_automata();
\* (lines 167-170)
Reseed ==
    /\ pc = "pollB" /\ FgCanRun
    /\ state = "Running" /\ ~b_pressed
    /\ reseeds < MaxReseeds
    /\ b_pressed' = TRUE
    /\ actsB' = actsB + 1
    /\ LET ra == random_automata(SEED)
       IN  automata' = ra.grid /\ SEED' = ra.seed
    /\ reseeds' = reseeds + 1
    /\ rd' = "pressed"
    /\ pc' = "b_copy"
    /\ UNCHANGED <<state, a_pressed, actsA, IMAGE, frame, cp, csOwner, rtcPc,
                   rtcVars, ticks, steps, imageWhole, frameWhole, testVars, t1Vars>>

\* Button B is latched, or is_low() is not Ok(true): nothing is done.
SkipB ==
    /\ pc = "pollB" /\ FgCanRun
    /\ \/ b_pressed /\ rd' = "none"
       \/ ~b_pressed /\ \E r \in Reads \ {"pressed"} : rd' = r
    /\ pc' = "pollA"
    /\ UNCHANGED <<state, automata, IMAGE, SEED, frame, cp, csOwner, rtcPc,
                   rtcVars, buttonVars, ticks, steps, reseeds, imageWhole, frameWhole,
                   testVars, t1Vars>>

\* A plausible slip: the closure run without masking the interrupts.
EnterCSUnmasked ==
    /\ pc \in {"b_enter", "a_enter"} /\ FgCanRun
    /\ csOwner = "none"
    /\ pc' = IF pc = "b_enter" THEN "b_reset"
             ELSE IF state = "Paused" THEN "a_enable" ELSE "a_disable"
    /\ rd' = "none"
    /\ UNCHANGED <<state, automata, IMAGE, SEED, frame, cp, csOwner, rtcPc,
                   rtcVars, buttonVars, ticks, steps, reseeds, imageWhole,
                   frameWhole, testVars, t1Vars>>

\* cortex_m::interrupt::free(|cs| ...) is entered: interrupts are masked.
EnterCS ==
    /\ pc \in {"b_enter", "a_enter"} /\ FgCanRun
    /\ csOwner = "none"
    /\ csOwner' = "main"
    /\ pc' = IF pc = "b_enter" THEN "b_reset"
             ELSE IF state = "Paused" THEN "a_enable" ELSE "a_disable"
    /\ rd' = "none"
    /\ UNCHANGED <<state, automata, IMAGE, SEED, frame, cp, rtcPc, rtcVars,
                   buttonVars, ticks, steps, reseeds, imageWhole, frameWhole, testVars, t1Vars>>

\* A plausible slip: the pending tick left as it is.
ResetEventForgotten ==
    /\ pc \in {"b_reset", "a_reset"} /\ FgCanRun
    /\ pc' = IF pc = "b_reset" THEN "b_draw" ELSE "a_exit"
    /\ rd' = "none"
    /\ UNCHANGED <<state, automata, IMAGE, SEED, frame, cp, csOwner, rtcPc,
                   rtcVars, buttonVars, ticks, steps, reseeds, imageWhole,
                   frameWhole, testVars, t1Vars>>

\* rtc.reset_event(RtcInterrupt::Tick) in main (lines 142, 174, 191)
ResetEvent ==
    /\ pc \in {"b_reset", "a_reset"} /\ FgCanRun
    /\ tickEvent' = FALSE
    /\ pc' = IF pc = "b_reset" THEN "b_draw" ELSE "a_exit"
    /\ rd' = "none"
    /\ UNCHANGED <<state, automata, IMAGE, SEED, frame, cp, csOwner, rtcPc,
                   counterEnabled, buttonVars, ticks, steps, reseeds, imageWhole,
                   frameWhole, testVars, t1Vars>>

\* draw(&mut display, automata, 7) in main (lines 145, 177)
DrawMain ==
    /\ pc = "b_draw" /\ FgCanRun
    /\ frame' = draw(automata, Brightness)
    /\ frameWhole' = TRUE
    /\ pc' = "b_exit"
    /\ rd' = "none"
    /\ UNCHANGED <<state, automata, IMAGE, SEED, cp, csOwner, rtcPc, rtcVars,
                   buttonVars, ticks, steps, reseeds, imageWhole, testVars, t1Vars>>

\* The closure returns: interrupts are enabled again.
ExitCS ==
    /\ pc \in {"b_exit", "a_exit"} /\ FgCanRun
    /\ csOwner' = "none"
    /\ pc' = IF pc = "b_exit" THEN "pollA" ELSE "a_set"
    /\ rd' = "none"
    /\ UNCHANGED <<state, automata, IMAGE, SEED, frame, cp, rtcPc, rtcVars,
                   buttonVars, ticks, steps, reseeds, imageWhole, frameWhole, testVars, t1Vars>>

\* Button A reads pressed while its latch is clear: a_pressed = true
\* (lines 151-153 and 183-185).
PressA ==
    /\ pc = "pollA" /\ FgCanRun
    /\ ~a_pressed
    /\ a_pressed' = TRUE
    /\ actsA' = actsA + 1
    /\ rd' = "pressed"
    /\ pc' = "a_enter"
    /\ UNCHANGED <<state, b_pressed, actsB, automata, IMAGE, SEED, frame, cp,
                   csOwner, rtcPc, rtcVars, ticks, steps, reseeds, imageWhole,
                   frameWhole, testVars, t1Vars>>

\* Button A is latched, or is_low() is not Ok(true): nothing is done.
SkipA ==
    /\ pc = "pollA" /\ FgCanRun
    /\ \/ a_pressed /\ rd' = "none"
       \/ ~a_pressed /\ \E r \in Reads \ {"pressed"} : rd' = r
    /\ pc' = "relA"
    /\ UNCHANGED <<state, automata, IMAGE, SEED, frame, cp, csOwner, rtcPc,
                   rtcVars, buttonVars, ticks, steps, reseeds, imageWhole, frameWhole,
                   testVars, t1Vars>>

\* A plausible slip: the resume that leaves the counter stopped.
EnableCounterForgotten ==
    /\ pc = "a_enable" /\ FgCanRun
    /\ pc' = "a_exit"
    /\ rd' = "none"
    /\ UNCHANGED <<state, automata, IMAGE, SEED, frame, cp, csOwner, rtcPc,
                   rtcVars, buttonVars, ticks, steps, reseeds, imageWhole,
                   frameWhole, testVars, t1Vars>>

\* Paused, button A: rtc.enable_counter() (line 158)
EnableCounter ==
    /\ pc = "a_enable" /\ FgCanRun
    /\ counterEnabled' = TRUE
    /\ pc' = "a_exit"
    /\ rd' = "none"
    /\ UNCHANGED <<state, automata, IMAGE, SEED, frame, cp, csOwner, rtcPc,
                   tickEvent, buttonVars, ticks, steps, reseeds, imageWhole,
                   frameWhole, testVars, t1Vars>>

\* A plausible slip: the pause written after the branches of button B, with
\* their draw of the foreground's grid.
DisableCounterRedrawing ==
    /\ pc = "a_disable" /\ FgCanRun
    /\ counterEnabled' = FALSE
    /\ frame' = draw(automata, Brightness)
    /\ pc' = "a_reset"
    /\ rd' = "none"
    /\ UNCHANGED <<state, automata, IMAGE, SEED, cp, csOwner, rtcPc,
                   tickEvent, buttonVars, ticks, steps, reseeds, imageWhole,
                   frameWhole, testVars, t1Vars>>

\* A plausible slip: the pause that leaves the counter running.
DisableCounterForgotten ==
    /\ pc = "a_disable" /\ FgCanRun
    /\ pc' = "a_reset"
    /\ rd' = "none"
    /\ UNCHANGED <<state, automata, IMAGE, SEED, frame, cp, csOwner, rtcPc,
                   rtcVars, buttonVars, ticks, steps, reseeds, imageWhole,
                   frameWhole, testVars, t1Vars>>

\* Running, button A: rtc.disable_counter() (line 190)
DisableCounter ==
    /\ pc = "a_disable" /\ FgCanRun
    /\ counterEnabled' = FALSE
    /\ pc' = "a_reset"
    /\ rd' = "none"
    /\ UNCHANGED <<state, automata, IMAGE, SEED, frame, cp, csOwner, rtcPc,
                   tickEvent, buttonVars, ticks, steps, reseeds, imageWhole,
                   frameWhole, testVars, t1Vars>>

\* A plausible slip: the branch of button A without its assignment to state.
SetStateForgotten ==
    /\ pc = "a_set" /\ FgCanRun
    /\ pc' = "relA"
    /\ rd' = "none"
    /\ UNCHANGED <<state, automata, IMAGE, SEED, frame, cp, csOwner, rtcPc,
                   rtcVars, buttonVars, ticks, steps, reseeds, imageWhole,
                   frameWhole, testVars, t1Vars>>

\* state = State::Running; (line 161) or state = State::Paused; (line 194)
SetState ==
    /\ pc = "a_set" /\ FgCanRun
    /\ state' = IF state = "Paused" THEN "Running" ELSE "Paused"
    /\ pc' = "relA"
    /\ rd' = "none"
    /\ UNCHANGED <<automata, IMAGE, SEED, frame, cp, csOwner, rtcPc, rtcVars,
                   buttonVars, ticks, steps, reseeds, imageWhole, frameWhole, testVars, t1Vars>>

\* A plausible slip: the latch cleared unless the pin reads pressed, so that
\* a failed read clears it too.
ReleaseUnlessPressedA ==
    /\ pc = "relA" /\ FgCanRun
    /\ \E r \in Reads :
        /\ rd' = r
        /\ IF r = "pressed"
           THEN UNCHANGED <<a_pressed, actsA>>
           ELSE a_pressed' = FALSE /\ actsA' = 0
    /\ pc' = "relB"
    /\ UNCHANGED <<state, b_pressed, actsB, automata, IMAGE, SEED, frame, cp,
                   csOwner, rtcPc, rtcVars, ticks, steps, reseeds, imageWhole,
                   frameWhole, testVars, t1Vars>>

\* A plausible slip: if let Ok(_) = ..., the latch cleared by any good read.
ReleaseAnyOkA ==
    /\ pc = "relA" /\ FgCanRun
    /\ \E r \in Reads :
        /\ rd' = r
        /\ a_pressed' = IF r = "err" THEN a_pressed ELSE FALSE
        /\ actsA' = IF r = "released" THEN 0 ELSE actsA
    /\ pc' = "relB"
    /\ UNCHANGED <<state, b_pressed, actsB, automata, IMAGE, SEED, frame, cp,
                   csOwner, rtcPc, rtcVars, ticks, steps, reseeds, imageWhole,
                   frameWhole, testVars, t1Vars>>

\* if let Ok(true) = button_a.is_high() { a_pressed = false; } (line 201)
ReleaseA ==
    /\ pc = "relA" /\ FgCanRun
    /\ \E r \in Reads :
        /\ rd' = r
        /\ IF r = "released"
           THEN a_pressed' = FALSE /\ actsA' = 0
           ELSE UNCHANGED <<a_pressed, actsA>>
    /\ pc' = "relB"
    /\ UNCHANGED <<state, b_pressed, actsB, automata, IMAGE, SEED, frame, cp,
                   csOwner, rtcPc, rtcVars, ticks, steps, reseeds, imageWhole,
                   frameWhole, testVars, t1Vars>>

\* if let Ok(true) = button_b.is_high() { b_pressed = false; } (line 202)
ReleaseB ==
    /\ pc = "relB" /\ FgCanRun
    /\ \E r \in Reads :
        /\ rd' = r
        /\ IF r = "released"
           THEN b_pressed' = FALSE /\ actsB' = 0
           ELSE UNCHANGED <<b_pressed, actsB>>
    /\ pc' = "pollB"
    /\ UNCHANGED <<state, a_pressed, actsA, automata, IMAGE, SEED, frame, cp,
                   csOwner, rtcPc, rtcVars, ticks, steps, reseeds, imageWhole,
                   frameWhole, testVars, t1Vars>>

(***************************************************************************)
(* The RTC0 peripheral and its interrupt handler.                          *)
(***************************************************************************)
\* The running counter raises the tick event, whatever the processor does.
RaiseTick ==
    /\ counterEnabled /\ ~tickEvent
    /\ ticks + TicksInFlight < MaxTicks
    /\ tickEvent' = TRUE
    /\ UNCHANGED <<state, automata, IMAGE, SEED, frame, pc, cp, csOwner,
                   rtcPc, counterEnabled, buttonVars, ticks, steps, reseeds,
                   imageWhole, frameWhole, testVars, t1Vars, rd>>

\* The pending tick preempts the foreground: RTC0() is entered.
RTC0_Entry ==
    /\ rtcPc = "idle" /\ TickTaken
    /\ rtcPc' = "ack"
    /\ UNCHANGED <<state, automata, IMAGE, SEED, frame, pc, cp, csOwner,
                   rtcVars, buttonVars, ticks, steps, reseeds, imageWhole, frameWhole,
                   testVars, t1Vars, rd>>

\* A plausible slip: the handler's first critical section without its
\* reset_event.
RTC0_AckForgotten ==
    /\ rtcPc = "ack" /\ csOwner = "none"
    /\ csOwner' = "rtc0"
    /\ rtcPc' = "ack_exit"
    /\ UNCHANGED <<state, automata, IMAGE, SEED, frame, pc, cp, rtcVars,
                   buttonVars, ticks, steps, reseeds, imageWhole,
                   frameWhole, testVars, t1Vars, rd>>

\* First critical section of RTC0: rtc.reset_event(Tick) (lines 227-231)
RTC0_Ack ==
    /\ rtcPc = "ack" /\ csOwner = "none"
    /\ csOwner' = "rtc0"
    /\ tickEvent' = FALSE
    /\ rtcPc' = "ack_exit"
    /\ UNCHANGED <<state, automata, IMAGE, SEED, frame, pc, cp,
                   counterEnabled, buttonVars, ticks, steps, reseeds, imageWhole,
                   frameWhole, testVars, t1Vars, rd>>

RTC0_AckExit ==
    /\ rtcPc = "ack_exit"
    /\ csOwner' = "none"
    /\ rtcPc' = "advance"
    /\ UNCHANGED <<state, automata, IMAGE, SEED, frame, pc, cp, rtcVars,
                   buttonVars, ticks, steps, reseeds, imageWhole, frameWhole, testVars, t1Vars, rd>>

\* IMAGE = update_automata(IMAGE, conway_transitions); let image = IMAGE;
\* (lines 233-234), outside the critical sections.
RTC0_Advance ==
    /\ rtcPc = "advance"
    /\ IMAGE' = Advance(IMAGE)
    /\ ticks' = ticks + 1
    /\ rtcPc' = "draw"
    /\ UNCHANGED <<state, automata, SEED, frame, pc, cp, csOwner, rtcVars,
                   buttonVars, steps, reseeds, imageWhole, frameWhole, testVars, t1Vars, rd>>

\* Second critical section of RTC0: draw(&mut display, image, 7) (236-240)
RTC0_Draw ==
    /\ rtcPc = "draw" /\ csOwner = "none"
    /\ csOwner' = "rtc0"
    /\ frame' = draw(IMAGE, Brightness)
    /\ frameWhole' = imageWhole
    /\ rtcPc' = "draw_exit"
    /\ UNCHANGED <<state, automata, IMAGE, SEED, pc, cp, rtcVars, buttonVars,
                   ticks, steps, reseeds, imageWhole, testVars, t1Vars, rd>>

\* The critical section and the handler return.
RTC0_Return ==
    /\ rtcPc = "draw_exit"
    /\ csOwner' = "none"
    /\ rtcPc' = "idle"
    /\ UNCHANGED <<state, automata, IMAGE, SEED, frame, pc, cp, rtcVars,
                   buttonVars, ticks, steps, reseeds, imageWhole, frameWhole, testVars, t1Vars, rd>>

(***************************************************************************)
(* The display timer TIMER1 and its interrupt handler (lines 216-223).     *)
(***************************************************************************)
\* The display driver's timer raises its event.
RaiseDisplay ==
    /\ ~dispEvent
    /\ dispEvent' = TRUE
    /\ UNCHANGED <<state, automata, IMAGE, SEED, frame, pc, cp, csOwner,
                   rtcPc, rtcVars, buttonVars, ticks, steps, reseeds, imageWhole,
                   frameWhole, testVars, t1Pc, rd>>

\* TIMER1() is entered.
TIMER1_Entry ==
    /\ t1Pc = "idle" /\ rtcPc = "idle" /\ DisplayTaken
    /\ t1Pc' = "enter"
    /\ UNCHANGED <<state, automata, IMAGE, SEED, frame, pc, cp, csOwner,
                   rtcPc, rtcVars, buttonVars, ticks, steps, reseeds, imageWhole,
                   frameWhole, testVars, dispEvent, rd>>

\* Its critical section: display.handle_display_event()
TIMER1_Handle ==
    /\ t1Pc = "enter" /\ T1CanRun /\ csOwner = "none"
    /\ csOwner' = "timer1"
    /\ dispEvent' = FALSE
    /\ t1Pc' = "exit"
    /\ UNCHANGED <<state, automata, IMAGE, SEED, frame, pc, cp, rtcPc,
                   rtcVars, buttonVars, ticks, steps, reseeds, imageWhole, frameWhole,
                   testVars, rd>>

\* The critical section and the handler return.
TIMER1_Return ==
    /\ t1Pc = "exit" /\ rtcPc = "idle"
    /\ csOwner' = "none"
    /\ t1Pc' = "idle"
    /\ UNCHANGED <<state, automata, IMAGE, SEED, frame, pc, cp, rtcPc,
                   rtcVars, buttonVars, ticks, steps, reseeds, imageWhole, frameWhole,
                   testVars, dispEvent, rd>>

DisplayHandler == TIMER1_Entry \/ TIMER1_Handle \/ TIMER1_Return

Foreground ==
    \/ Startup \/ CopyCell
    \/ ManualStep \/ Reseed \/ SkipB
    \/ PressA \/ SkipA
    \/ EnterCS \/ ResetEvent \/ DrawMain \/ ExitCS
    \/ EnableCounter \/ DisableCounter \/ SetState
    \/ ReleaseA \/ ReleaseB

TickHandler ==
    \/ RTC0_Entry \/ RTC0_Ack \/ RTC0_AckExit
    \/ RTC0_Advance \/ RTC0_Draw \/ RTC0_Return

Next ==
    \/ Foreground
    \/ RaiseTick \/ TickHandler
    \/ RaiseDisplay \/ DisplayHandler

Spec == Init /\ [][Next]_vars

(***************************************************************************)
(* The pure functions on their own: each specification below draws an      *)
(* input and applies one function to it, the program standing still.       *)
(***************************************************************************)
ProgramAtRest ==
    /\ state = "Running" /\ a_pressed = FALSE /\ b_pressed = FALSE
    /\ automata = ZeroGrid /\ IMAGE = ZeroGrid /\ SEED = InitialSeed
    /\ counterEnabled = TRUE /\ tickEvent = FALSE /\ frame = ZeroGrid
    /\ pc = "start" /\ cp = 0 /\ csOwner = "none" /\ rtcPc = "idle"
    /\ dispEvent = FALSE /\ t1Pc = "idle" /\ rd = "none"
    /\ ticks = 0 /\ steps = 0 /\ reseeds = 0 /\ actsA = 0 /\ actsB = 0
    /\ imageWhole = TRUE /\ frameWhole = TRUE

programVars == <<state, a_pressed, b_pressed, automata, IMAGE, SEED,
                 counterEnabled, tickEvent, frame, pc, cp, csOwner, rtcPc,
                 dispEvent, t1Pc, rd, ticks, steps, reseeds, actsA, actsB,
                 imageWhole, frameWhole>>

\* conway_transitions on every cell value and neighbour vector over {0, 1}.
ConwayInputs ==
    {[kind |-> "conway", cell |-> c, neighbors |-> nb] :
        c \in {0, 1}, nb \in [1 .. 8 -> {0, 1}]}

ApplyConway ==
    /\ tIn.kind = "conway" /\ ~tOut.done
    /\ tOut' = [done |-> TRUE, val |-> conway_transitions(tIn.cell, tIn.neighbors)]
    /\ UNCHANGED <<programVars, tIn>>

InitConway == ProgramAtRest /\ tIn \in ConwayInputs /\ tOut = NoOutput

SpecConway == InitConway /\ [][ApplyConway]_vars

\* update_automata on the grid whose cells are all different, on the diagonal
\* {(1,1),(2,2),(3,3)}, and on every grid with at most MaxLive live cells.
IndexGrid == [r \in Idx |-> [c \in Idx |-> N * r + c + 1]]
DiagonalGrid == [r \in Idx |-> [c \in Idx |-> IF r = c /\ r \in 1 .. 3 THEN 1 ELSE 0]]
GridOf(live) == [r \in Idx |-> [c \in Idx |-> IF N * r + c \in live THEN 1 ELSE 0]]
SparseGrids ==
    {GridOf({f[i] : i \in 1 .. MaxLive}) : f \in [1 .. MaxLive -> 0 .. (Cells - 1)]}
TestGrids == {IndexGrid, DiagonalGrid, ZeroGrid} \cup SparseGrids

UpdateInputs ==
    {[kind |-> "update", grid |-> g, rule |-> R] : g \in TestGrids, R \in Rules}

ApplyUpdate ==
    /\ tIn.kind = "update" /\ ~tOut.done
    /\ tOut' = [done |-> TRUE, val |-> update_automata(tIn.grid, tIn.rule)]
    /\ UNCHANGED <<programVars, tIn>>

InitUpdate == ProgramAtRest /\ tIn \in UpdateInputs /\ tOut = NoOutput

SpecUpdate == InitUpdate /\ [][ApplyUpdate]_vars

\* random_automata on every value of the 16-bit SEED.
SeedInputs == {[kind |-> "seed", seed |-> s] : s \in 0 .. (U16 - 1)}

ApplyRandom ==
    /\ tIn.kind = "seed" /\ ~tOut.done
    /\ tOut' = [done |-> TRUE, val |-> random_automata(tIn.seed)]
    /\ UNCHANGED <<programVars, tIn>>

InitSeed == ProgramAtRest /\ tIn \in SeedInputs /\ tOut = NoOutput

SpecSeed == InitSeed /\ [][ApplyRandom]_vars

(***************************************************************************)
(* The transition rule and the generator.                                  *)
(***************************************************************************)
StandardLife(cell, liveNeighbors) ==
    IF cell = 1
    THEN (IF liveNeighbors \in {2, 3} THEN 1 ELSE 0)
    ELSE (IF liveNeighbors = 3 THEN 1 ELSE 0)

SumOf(nb) == nb[1] + nb[2] + nb[3] + nb[4] + nb[5] + nb[6] + nb[7] + nb[8]

\* C8: conway_transitions is the standard life rule: a live cell stays alive
\* exactly with 2 or 3 live neighbours, a dead cell becomes alive exactly
\* with 3 live neighbours.
ConwayIsStandardLife ==
    tOut.done => tOut.val = StandardLife(tIn.cell, SumOf(tIn.neighbors))

\* The place of the k-th neighbour of the array, as row and column offsets.
Offsets == << <<4, 4>>, <<4, 0>>, <<4, 1>>, <<0, 4>>, <<0, 1>>,
              <<1, 4>>, <<1, 0>>, <<1, 1>> >>

TorusNeighbors(g, r, c) ==
    [k \in 1 .. 8 |-> g[(r + Offsets[k][1]) % N][(c + Offsets[k][2]) % N]]

\* C9: update_automata is a snapshot transform on the torus: every output
\* cell is the rule applied to the input cell and to the 8 cells around it
\* in the input grid, in the order top-left, top, top-right, left, right,
\* bottom-left, bottom, bottom-right, and the top-left neighbour of (0,0)
\* is (4,4).
UpdateIsSnapshot ==
    tOut.done =>
        /\ \A r \in Idx, c \in Idx :
            tOut.val[r][c] =
                transition_function(tIn.rule, tIn.grid[r][c],
                                    TorusNeighbors(tIn.grid, r, c))
        /\ tIn.rule = "nb1" => tOut.val[0][0] = tIn.grid[4][4]

\* An update has been made whose rule reads a neighbour, on a grid where an
\* update made in place would give another result.
UpdateIsSnapshotWitness ==
    /\ tOut.done
    /\ tIn.rule = "nb1"
    /\ tIn.grid = IndexGrid
    /\ tOut.val[0][0] = N * 4 + 4 + 1
    /\ tOut.val[2][2] = N * 1 + 1 + 1

\* Bit n of the 32-bit value x.
BitOf(x, n) ==
    IF n < 16 THEN (x[2] \div Pow2(n)) % 2 ELSE (x[1] \div Pow2(n - 16)) % 2

RECURSIVE BitsFrom(_, _, _)
BitsFrom(x, n, count) ==
    IF count = 0 THEN 0 ELSE BitOf(x, n) + 2 * BitsFrom(x, n + 1, count - 1)

\* Three moduli, coprime in pairs, whose product is above 2^32: two values
\* below 2^32 that agree modulo all three are equal.
Moduli == {32768, 32767, 32765}

\* x, of two limbs below 2^16, is s * s.
IsSquareOf(x, s) ==
    /\ x[1] \in 0 .. (U16 - 1)
    /\ x[2] \in 0 .. (U16 - 1)
    /\ \A m \in Moduli :
        ((x[1] % m) * (U16 % m) + x[2]) % m = ((s % m) * (s % m)) % m

\* C10: random_automata is a function of the prior seed s: the square s * s
\* fits in 32 bits, the next seed is bits 8..23 of it, and the cell at
\* row-major position n = 5 * r + c is bit n of it.
SeedIsMiddleSquare ==
    tOut.done =>
        LET s == tIn.seed
            square == U32Square(s)
        IN  /\ IsSquareOf(square, s)
            /\ tOut.val.seed = BitsFrom(square, 8, 16)
            /\ \A r \in Idx, c \in Idx :
                tOut.val.grid[r][c] = BitOf(square, N * r + c)

\* random_automata has run on the program's first seed, 39333, whose square
\* 1547084889 has bits above bit 24 and gives the next seed 13988.
SeedIsMiddleSquareWitness ==
    /\ tOut.done
    /\ tIn.seed = InitialSeed
    /\ tOut.val.seed = 13988
    /\ tOut.val.grid[0][0] = 1

(***************************************************************************)
(* The program with the scheduling the hardware gives: the running counter *)
(* keeps raising ticks, a handler that is entered runs to its end, and the *)
(* foreground leaves every critical section it has entered.                *)
(***************************************************************************)
\* The steps the foreground makes with interrupts masked.
MaskedSteps ==
    ResetEvent \/ DrawMain \/ EnableCounter \/ DisableCounter \/ ExitCS

FairSpec ==
    /\ Spec
    /\ WF_vars(RaiseTick)
    /\ WF_vars(TickHandler)
    /\ WF_vars(DisplayHandler)
    /\ WF_vars(MaskedSteps)

(***************************************************************************)
(* Buttons, run state and the shared grid.                                 *)
(***************************************************************************)
\* The foreground is storing automata into IMAGE.
CopyPcs == {"init_copy", "b_copy"}

\* C1: a manual step (button B actioned while Paused) advances the current
\* shared grid by one generation; the result becomes the shared grid and is
\* rendered, and the timer stays disabled.
ManualStepAdvancesSharedGrid ==
    /\ [][ManualStep => automata' = Advance(IMAGE)]_vars
    /\ [](pc = "b_exit" /\ state = "Paused" =>
            /\ IMAGE = automata
            /\ frame = draw(automata, Brightness)
            /\ ~counterEnabled)

\* Button A has been actioned in Paused and the resume is under way.
Resuming == state = "Paused" /\ pc \in {"a_enter", "a_enable", "a_exit", "a_set"}

\* C2: a pause leaves the run state Paused with the timer disabled, and from
\* then until the next actioned press of button A no tick is pending, the
\* tick handler does not run, and the shared grid changes only by the copy
\* of a manual step.
PausedIsFrozen ==
    /\ [][(SetState /\ state = "Running") =>
            (state' = "Paused" /\ ~counterEnabled' /\ ~tickEvent')]_vars
    /\ []((state = "Paused" /\ ~Resuming) =>
            (~counterEnabled /\ ~tickEvent /\ rtcPc = "idle"))
    /\ [][(state = "Paused" /\ ~Resuming /\ IMAGE' # IMAGE) =>
            (pc = "b_copy" /\ rtcPc' = "idle")]_vars

\* The program is paused after a tick, and a manual step has been made and
\* stored in the shared grid while it was.
PausedIsFrozenWitness ==
    /\ state = "Paused" /\ pc = "relA"
    /\ ticks = 1 /\ steps = 1
    /\ IMAGE = automata

\* C3: a resume leaves the run state Running with the timer enabled; while
\* the timer stays enabled a tick is then handled, and a run of the tick
\* handler changes the shared grid once, to its advance by one generation.
ResumeLeadsToTick ==
    /\ [][(SetState /\ state = "Paused") =>
            (state' = "Running" /\ counterEnabled')]_vars
    /\ [][(rtcPc # "idle" /\ IMAGE' # IMAGE) => rtcPc = "advance"]_vars
    /\ [][(rtcPc = "advance" /\ rtcPc' # "advance") =>
            (IMAGE' = Advance(IMAGE) /\ ticks' = ticks + 1)]_vars
    /\ (pc = "a_set" /\ state = "Paused" /\ ticks < MaxTicks)
            ~> (rtcPc = "draw_exit" \/ ~counterEnabled)

\* After a manual step, so after a pause, the program runs again and the
\* tick handler has advanced the shared grid and drawn it.
ResumeLeadsToTickWitness ==
    /\ state = "Running" /\ steps = 1
    /\ rtcPc = "draw_exit" /\ ticks = 1
    /\ frame = draw(IMAGE, Brightness)

\* C4: between two released readings a button is actioned at most once,
\* however many polls read it pressed, in either run state: its latch is set
\* exactly while an action has been made since the last released reading,
\* and a poll that reads it pressed with the latch clear actions it.
PressedOnceActionedOnce ==
    /\ actsA \in {0, 1} /\ actsB \in {0, 1}
    /\ a_pressed <=> actsA = 1
    /\ b_pressed <=> actsB = 1
    /\ (pc = "b_copy" /\ cp = 0) => (b_pressed /\ rd = "pressed")
    /\ pc = "a_enter" => (a_pressed /\ rd = "pressed")
    /\ pc \in {"pollA", "relA"} => rd # "pressed"

\* Button A was actioned, is latched, and has just been read pressed again
\* by the poll that follows, in the run state the action led to.
PressedOnceActionedOnceWitness ==
    /\ pc = "relB" /\ rd = "pressed"
    /\ a_pressed /\ actsA = 1
    /\ state = "Paused"

\* C5: a reseed clears the tick that was pending, and when its render
\* completes the shared grid and the frame on the display are both the
\* freshly seeded grid (a tick the running counter raises after the clear is
\* the next natural tick).
ReseedIsSharedAndShown ==
    /\ [][(ResetEvent /\ pc = "b_reset" /\ state = "Running") => ~tickEvent']_vars
    /\ []((pc = "b_exit" /\ state = "Running") =>
            (IMAGE = automata /\ frame = draw(automata, Brightness)))

\* C6: the shared grid is written only inside a critical section: while the
\* foreground is part-way through storing IMAGE, and when the tick handler
\* is at its store of IMAGE, interrupts are masked by that context.
GridTouchedOnlyMasked ==
    /\ (pc \in CopyPcs /\ cp > 0) => csOwner = "main"
    /\ rtcPc = "advance" => csOwner = "rtc0"

\* C7: no partial update is rendered: the frame on the display is always
\* drawn from a whole output of a reseed or of an advance of a whole grid.
NoPartialUpdateRendered == frameWhole

(***************************************************************************)
(* Fixed points of the rule in use.                                        *)
(***************************************************************************)
LiveCells(g) == {rc \in Idx \X Idx : g[rc[1]][rc[2]] # 0}

\* C11: with the rule the program passes, the advance of the all-dead grid
\* is the all-dead grid, and the advance of a grid with exactly one live
\* cell is the all-dead grid.
LonelyAndEmptyGoDead ==
    (/\ tOut.done
     /\ tIn.rule = "conway"
     /\ Cardinality(LiveCells(tIn.grid)) <= 1) => tOut.val = ZeroGrid

\* The grid whose one live cell is the corner (0,0), whose neighbours lie
\* across both edges of the torus, has been advanced with the program's rule.
LonelyAndEmptyGoDeadWitness ==
    /\ tOut.done
    /\ tIn.rule = "conway"
    /\ tIn.grid = GridOf({0})
    /\ LiveCells(tIn.grid) = {<<0, 0>>}
    /\ tOut.val = ZeroGrid

(***************************************************************************)
(* Failed reads, critical sections, the tick handler, the seed, the cell   *)
(* values, and the run state against the timer.                            *)
(***************************************************************************)
\* Where the foreground goes from a poll that does nothing.
AfterPoll ==
    [p \in {"pollB", "pollA", "relA", "relB"} |->
        CASE p = "pollB" -> "pollA" [] p = "pollA" -> "relA"
          [] p = "relA" -> "relB" [] p = "relB" -> "pollB"]

\* C12: a button read that fails is a no-op for that poll: the foreground
\* goes on to its next poll without an action, and the two latches, the run
\* state, the grids, the seed, the frame and the timer are left unchanged.
FailedReadIsNoOp ==
    [][(pc' # pc /\ rd' = "err") =>
        /\ pc \in DOMAIN AfterPoll /\ pc' = AfterPoll[pc]
        /\ UNCHANGED <<state, a_pressed, b_pressed, actsA, actsB, automata,
                       IMAGE, SEED, frame, counterEnabled, tickEvent,
                       csOwner>>]_vars

\* Button A was actioned and paused the program, and the read of its release
\* has just failed: the latch is still set.
FailedReadIsNoOpWitness ==
    /\ pc = "relB" /\ rd = "err"
    /\ a_pressed /\ actsA = 1
    /\ state = "Paused" /\ ~counterEnabled

\* Each context's position inside a closure of cortex_m::interrupt::free.
MainInCS ==
    pc \in {"b_reset", "b_draw", "b_exit",
            "a_enable", "a_disable", "a_reset", "a_exit"}
RTC0InCS == rtcPc \in {"ack_exit", "draw_exit"}
TIMER1InCS == t1Pc = "exit"

ContextsInCS ==
    (IF MainInCS THEN {"main"} ELSE {})
    \cup (IF RTC0InCS THEN {"rtc0"} ELSE {})
    \cup (IF TIMER1InCS THEN {"timer1"} ELSE {})

\* C13: at most one of the foreground loop, RTC0 and TIMER1 is inside a
\* critical section at any instant, so DISPLAY and ANIM_TIMER are never
\* borrowed by two contexts at once; no handler is running while the
\* foreground is inside one.
OneContextInCS ==
    /\ Cardinality(ContextsInCS) <= 1
    /\ MainInCS => (rtcPc = "idle" /\ t1Pc = "idle")
    /\ RTC0InCS => csOwner = "rtc0"

\* All three contexts are under way and one is inside a critical section:
\* RTC0 is drawing, having preempted TIMER1 before its critical section,
\* which had preempted the foreground in its store of IMAGE.
OneContextInCSWitness ==
    /\ rtcPc = "draw_exit" /\ csOwner = "rtc0"
    /\ t1Pc = "enter"
    /\ pc = "b_copy" /\ cp > 0

\* C14: when the foreground re-enables the timer no tick is pending and no
\* tick is being handled: while the counter is stopped a tick is pending
\* only inside the pause's critical section, before its reset_event, and a
\* tick is raised only by the running counter; so the first tick handled
\* after a resume was raised after the counter was re-enabled.
ResumeFromClearedEvent ==
    /\ [](pc = "a_enable" => (~counterEnabled /\ ~tickEvent /\ rtcPc = "idle"))
    /\ []((~counterEnabled /\ pc # "a_reset") => (~tickEvent /\ rtcPc = "idle"))
    /\ [][(~tickEvent /\ tickEvent') => counterEnabled]_vars

\* The counter has just been re-enabled, after a tick was handled, the
\* program was paused and a manual step was made.
ResumeFromClearedEventWitness ==
    /\ pc = "a_exit" /\ state = "Paused"
    /\ counterEnabled /\ ~tickEvent
    /\ ticks = 1 /\ steps = 1

\* The positions of RTC0 in the order of its code.
AfterRtc ==
    [p \in {"idle", "ack", "ack_exit", "advance", "draw", "draw_exit"} |->
        CASE p = "idle" -> "ack" [] p = "ack" -> "ack_exit"
          [] p = "ack_exit" -> "advance" [] p = "advance" -> "draw"
          [] p = "draw" -> "draw_exit" [] p = "draw_exit" -> "idle"]

\* C15: a run of the tick handler is entered on a pending tick, first clears
\* it, then replaces the shared grid, unchanged since the entry, by its
\* advance by one generation, then renders the new grid, and returns; from
\* its entry to its return the foreground and TIMER1 make no step.
TickHandlerInOrder ==
    /\ [][rtcPc' # rtcPc => rtcPc' = AfterRtc[rtcPc]]_vars
    /\ [][(rtcPc = "idle" /\ rtcPc' = "ack") => (tickEvent /\ IMAGE' = IMAGE)]_vars
    /\ [][(rtcPc = "ack" /\ rtcPc' = "ack_exit") =>
            (~tickEvent' /\ IMAGE' = IMAGE /\ frame' = frame)]_vars
    /\ [][(rtcPc = "ack_exit" /\ rtcPc' = "advance") =>
            (IMAGE' = IMAGE /\ frame' = frame)]_vars
    /\ [][(rtcPc = "advance" /\ rtcPc' = "draw") =>
            (IMAGE' = Advance(IMAGE) /\ ticks' = ticks + 1 /\ frame' = frame)]_vars
    /\ [][(rtcPc = "draw" /\ rtcPc' = "draw_exit") =>
            (IMAGE' = IMAGE /\ frame' = draw(IMAGE, Brightness))]_vars
    /\ [][(rtcPc = "draw_exit" /\ rtcPc' = "idle") =>
            (IMAGE' = IMAGE /\ frame' = frame)]_vars
    /\ [][rtcPc # "idle" =>
            /\ UNCHANGED <<pc, cp, rd, state, a_pressed, b_pressed, automata,
                           SEED, counterEnabled, t1Pc>>
            /\ rtcPc' = rtcPc => UNCHANGED <<IMAGE, frame, ticks>>]_vars

\* The handler has preempted the foreground between two polls, has cleared
\* the tick, advanced the shared grid away from the foreground's grid and
\* drawn it, and has not yet returned.
TickHandlerInOrderWitness ==
    /\ rtcPc = "draw_exit" /\ pc = "pollA"
    /\ ~tickEvent /\ ticks = 1
    /\ IMAGE = Advance(automata) /\ IMAGE # automata
    /\ frame = draw(IMAGE, Brightness)

\* The seed after k calls of random_automata.
RECURSIVE SeedAfter(_)
SeedAfter(k) ==
    IF k = 0 THEN InitialSeed ELSE NextSeed(U32Square(SeedAfter(k - 1)))

\* C16: the seed is changed only by the foreground's calls of
\* random_automata, at startup and on button B while Running; each such call
\* replaces it once, by the successor of its value; the tick handler, the
\* display handler, pause, resume and the manual step leave it unchanged, so
\* it is always the seed after one call at startup and one per reseed.
SeedOnlyByReseed ==
    /\ [][SEED' # SEED =>
            /\ \/ pc = "start" /\ pc' = "init_copy"
               \/ pc = "pollB" /\ pc' = "b_copy" /\ state = "Running"
            /\ rtcPc = "idle" /\ t1Pc = "idle"
            /\ SEED' = NextSeed(U32Square(SEED))
            /\ automata' = random_automata(SEED).grid]_vars
    /\ [][(pc = "pollB" /\ pc' = "b_copy" /\ state = "Running") =>
            (SEED' = NextSeed(U32Square(SEED)) /\ reseeds' = reseeds + 1)]_vars
    /\ [](SEED = IF pc = "start" THEN InitialSeed ELSE SeedAfter(1 + reseeds))

\* After the startup seeding and one reseed, and after a tick, a pause, a
\* manual step and a resume, the seed is the second successor of 39333.
SeedOnlyByReseedWitness ==
    /\ reseeds = 1 /\ ticks = 1 /\ steps = 1
    /\ state = "Running" /\ pc = "pollB"
    /\ SEED = SeedAfter(2)
    /\ SEED \notin {InitialSeed, SeedAfter(1)}

CellsOf(g) == {g[r][c] : r \in Idx, c \in Idx}

\* C17: every cell of the shared grid and of the foreground's grid is 0 or
\* 1, so every pixel value handed to the display is 0 or 7, and the product
\* of a cell and the brightness in draw is below 256: the 8-bit
\* multiplication never overflows.
CellsAreBits ==
    /\ CellsOf(IMAGE) \subseteq {0, 1}
    /\ CellsOf(automata) \subseteq {0, 1}
    /\ CellsOf(frame) \subseteq {0, Brightness}
    /\ \A v \in CellsOf(IMAGE) \cup CellsOf(automata) : v * Brightness < U8

\* After a reseed the tick handler has advanced the shared grid and drawn
\* it: the frame has lit and dark pixels.
CellsAreBitsWitness ==
    /\ reseeds = 1 /\ ticks = 1
    /\ rtcPc = "draw_exit"
    /\ CellsOf(IMAGE) = {0, 1}
    /\ CellsOf(frame) = {0, Brightness}

\* The foreground is between the timer call of a button-A branch and the
\* assignment to state that follows it.
BetweenTimerAndState == pc \in {"a_reset", "a_exit", "a_set"}

\* C18: at the start of every iteration of the foreground loop, and at every
\* point of it outside a button-A branch, the run state is Running exactly
\* when the counter of the timer is enabled.
StateAgreesWithTimer ==
    /\ pc = "pollB" => (state = "Running" <=> counterEnabled)
    /\ ~BetweenTimerAndState => (state = "Running" <=> counterEnabled)

\* An iteration starts in Running with the counter enabled, after a tick, a
\* pause, a manual step and a resume.
StateAgreesWithTimerWitness ==
    /\ pc = "pollB" /\ state = "Running" /\ counterEnabled
    /\ ticks = 1 /\ steps = 1

\* The foreground is inside a button-A branch, its latch just set.
InPressA == pc \in {"a_enter", "a_enable", "a_disable", "a_reset", "a_exit", "a_set"}

\* C19: an actioned press of button A, from the setting of its latch to the
\* assignment to state, leaves the shared grid, the foreground's grid, the
\* seed, button B's latch and the frame on the display unchanged: no step
\* of the branch changes any of them, and the shared grid and the frame
\* change meanwhile only by a tick handler that preempts the branch.
PressATouchesStateAndTimerOnly ==
    /\ [][((pc = "pollA" /\ pc' = "a_enter") \/ (InPressA /\ pc' # pc)) =>
            UNCHANGED <<IMAGE, automata, SEED, b_pressed, actsB, frame>>]_vars
    /\ [][InPressA => UNCHANGED <<automata, SEED, b_pressed, actsB>>]_vars
    /\ [][(InPressA /\ (IMAGE' # IMAGE \/ frame' # frame)) =>
            rtcPc \in {"advance", "draw"}]_vars
    /\ [][(pc = "a_set" /\ pc' # pc) =>
            (state' # state /\ a_pressed' /\ a_pressed)]_vars

\* A press of button A has just paused the program: the frame is the one the
\* tick handler drew, and button B's latch is clear.
PressATouchesStateAndTimerOnlyWitness ==
    /\ pc = "relA" /\ rd = "none"
    /\ state = "Paused" /\ ~counterEnabled
    /\ a_pressed /\ ~b_pressed
    /\ ticks = 1 /\ steps = 0 /\ reseeds = 0
    /\ IMAGE # automata
    /\ frame = draw(IMAGE, Brightness)

====
